---- MODULE Spec2Model ----
(***************************************************************************)
(* The data flow graph of lib/cretonne/src/ir/dfg.rs as a state machine.   *)
(*                                                                         *)
(* The state is the DataFlowGraph itself (variable dfg), the last call     *)
(* made on it (variable last) and the number of calls made so far          *)
(* (variable calls).  Every public mutation of the DFG is one              *)
(* action; every query is an operator on a DFG value.  A panic of the      *)
(* code is the result Panic of an operation (the call does not return)     *)
(* and the value Abort of a query.                                         *)
(*                                                                         *)
(* Entity references are the integers the code uses: Inst, Ebb, SigRef and *)
(* FuncRef count from 0, a Value is the packed number of ir::entities.     *)
(* Sequences of TLA+ count from 1, so entity k lives at position k + 1.    *)
(***************************************************************************)
EXTENDS Integers, Sequences, FiniteSets, TLC

VARIABLES dfg, last, calls

vars == <<dfg, last, calls>>

(***************************************************************************)
(* Bounds of the model.                                                    *)
(***************************************************************************)
MaxCalls == 4
MaxInsts == 3
MaxValues == 3
MaxEbbs == 1
MaxList == 3

(***************************************************************************)
(* Types.                                                                  *)
(***************************************************************************)
VOID == "void"
I32 == "i32"
I64 == "i64"
B1 == "b1"
Types == {I32, I64}

(***************************************************************************)
(* None is the empty PackedOption or Option of an entity reference, NoType *)
(* the empty Option<Type>.  Abort is what a query yields when it panics.   *)
(***************************************************************************)
None == -1

NoType == "none"

Abort == -2

U16_MAX == 65535

(***************************************************************************)
(* Value: the packed reference.  An even number is the first result of an  *)
(* instruction, an odd one indexes the extended value table.               *)
(***************************************************************************)
new_direct(inst) == 2 * inst

new_table(index) == 2 * index + 1

expand(v) ==
    IF v % 2 = 0
    THEN [tag |-> "Direct", idx |-> v \div 2]
    ELSE [tag |-> "Table", idx |-> v \div 2]

(***************************************************************************)
(* Opcodes and their constraints (ir::instructions).  Only the opcodes the *)
(* DFG itself names or its tests build are modelled.                       *)
(***************************************************************************)
CopyOpcodes == {"copy", "spill", "fill"}

Opcodes == {"trap", "iconst", "iadd", "iadd_cout", "call", "call_indirect"} \cup CopyOpcodes

format(opcode) ==
    CASE opcode \in {"trap", "iconst"} -> "Nullary"
      [] opcode \in CopyOpcodes -> "Unary"
      [] opcode \in {"iadd", "iadd_cout"} -> "Binary"
      [] opcode = "call" -> "Call"
      [] opcode = "call_indirect" -> "IndirectCall"

fixed_results(opcode) ==
    CASE opcode \in {"trap", "call", "call_indirect"} -> 0
      [] opcode = "iadd_cout" -> 2
      [] OTHER -> 1

result_type(opcode, n, ctrl_typevar) ==
    IF opcode = "iadd_cout" /\ n = 1 THEN B1 ELSE ctrl_typevar

(***************************************************************************)
(* InstructionData: opcode, first-result type, value arguments and, for a  *)
(* call, the FuncRef or SigRef it names.                                   *)
(***************************************************************************)
InstructionData(opcode, ty, args, ref) ==
    [opcode |-> opcode, ty |-> ty, args |-> args, ref |-> ref]

analyze_call(data) ==
    CASE data.opcode = "call" -> [kind |-> "Direct", ref |-> data.ref]
      [] data.opcode = "call_indirect" -> [kind |-> "Indirect", ref |-> data.ref]
      [] OTHER -> [kind |-> "NotACall", ref |-> None]

(***************************************************************************)
(* ValueData: the three kinds of extended value.                           *)
(***************************************************************************)
ValueData_Inst(ty, num, inst, next) ==
    [kind |-> "Inst", ty |-> ty, num |-> num, inst |-> inst, next |-> next]

ValueData_Arg(ty, num, ebb) ==
    [kind |-> "Arg", ty |-> ty, num |-> num, ebb |-> ebb]

ValueData_Alias(ty, original) ==
    [kind |-> "Alias", ty |-> ty, original |-> original]

(***************************************************************************)
(* The signature and external function tables.  They are public fields a   *)
(* caller fills before it builds a call; the model starts with them filled *)
(* and never changes them.                                                 *)
(***************************************************************************)
Signatures == << <<I64, I32, I32>> >>

ExtFuncs == << 0 >>

DataFlowGraph_new ==
    [insts |-> << >>,
     results |-> << >>,
     ebbs |-> << >>,
     extended_values |-> << >>,
     signatures |-> Signatures,
     ext_funcs |-> ExtFuncs]

(***************************************************************************)
(* The outcome of an operation: it returns ret and leaves the DFG d, or it *)
(* panics.                                                                 *)
(***************************************************************************)
Ok(d, ret) == [abort |-> FALSE, dfg |-> d, ret |-> ret]

Panic(d) == [abort |-> TRUE, dfg |-> d, ret |-> Abort]

(***************************************************************************)
(* Entity maps and value lists.                                            *)
(***************************************************************************)
Insts(d) == 0 .. Len(d.insts) - 1

Ebbs(d) == 0 .. Len(d.ebbs) - 1

Tables(d) == 0 .. Len(d.extended_values) - 1

num_insts(d) == Len(d.insts)

inst_is_valid(d, inst) == inst \in Insts(d)

num_ebbs(d) == Len(d.ebbs)

ebb_is_valid(d, ebb) == ebb \in Ebbs(d)

list_get(list, n) == IF n < Len(list) THEN list[n + 1] ELSE None

Reverse(s) == [k \in 1 .. Len(s) |-> s[Len(s) + 1 - k]]

Occurs(list, v) == \E k \in 1 .. Len(list) : list[k] = v

(***************************************************************************)
(* Handling values.                                                        *)
(***************************************************************************)
make_value(d, data) ==
    Ok([d EXCEPT !.extended_values = Append(@, data)],
       new_table(Len(d.extended_values)))

value_is_valid(d, v) ==
    LET e == expand(v) IN
    IF e.tag = "Direct" THEN inst_is_valid(d, e.idx)
    ELSE e.idx < Len(d.extended_values)

Values(d) ==
    {new_direct(i) : i \in Insts(d)} \cup {new_table(k) : k \in Tables(d)}

value_type(d, v) ==
    LET e == expand(v) IN
    IF e.tag = "Direct" THEN d.insts[e.idx + 1].ty
    ELSE d.extended_values[e.idx + 1].ty

RECURSIVE resolve_aliases_loop(_, _, _)
resolve_aliases_loop(d, v, n) ==
    IF n = 0 THEN Abort
    ELSE LET e == expand(v) IN
         IF e.tag = "Table"
         THEN LET data == d.extended_values[e.idx + 1] IN
              IF data.kind = "Alias"
              THEN resolve_aliases_loop(d, data.original, n - 1)
              ELSE v
         ELSE v

\* resolve_aliases with a loop that gives up following after one alias link
\* and returns what it has.
resolve_aliases_one_link(d, value) ==
    LET e == expand(value) IN
    IF e.tag = "Table" /\ d.extended_values[e.idx + 1].kind = "Alias"
    THEN d.extended_values[e.idx + 1].original
    ELSE value

resolve_aliases(d, value) ==
    resolve_aliases_loop(d, value, 1 + Len(d.extended_values))

RECURSIVE resolve_copies_loop(_, _, _)
resolve_copies_loop(d, value, n) ==
    IF n = 0 THEN Abort
    ELSE LET v == resolve_aliases(d, value) IN
         IF v = Abort THEN Abort
         ELSE LET e == expand(v) IN
              IF e.tag = "Direct"
              THEN LET data == d.insts[e.idx + 1] IN
                   IF format(data.opcode) = "Unary" /\ data.opcode \in {"copy", "spill", "fill"}
                   THEN resolve_copies_loop(d, data.args[1], n - 1)
                   ELSE v
              ELSE v

resolve_copies(d, value) ==
    resolve_copies_loop(d, value, Len(d.insts))

Dangling == [kind |-> "Abort", of |-> None, num |-> None]

value_def(d, v) ==
    LET def(w) ==
            LET e == expand(w) IN
            IF e.tag = "Direct" THEN [kind |-> "Res", of |-> e.idx, num |-> 0]
            ELSE LET data == d.extended_values[e.idx + 1] IN
                 CASE data.kind = "Inst" ->
                        IF list_get(d.results[data.inst + 1], data.num) = w
                        THEN [kind |-> "Res", of |-> data.inst, num |-> data.num]
                        ELSE Dangling
                   [] data.kind = "Arg" ->
                        IF list_get(d.ebbs[data.ebb + 1], data.num) = w
                        THEN [kind |-> "Arg", of |-> data.ebb, num |-> data.num]
                        ELSE Dangling
                   [] OTHER -> Dangling
        e == expand(v)
    IN  IF e.tag = "Table" /\ d.extended_values[e.idx + 1].kind = "Alias"
        THEN LET o == resolve_aliases(d, d.extended_values[e.idx + 1].original) IN
             IF o = Abort THEN Dangling ELSE def(o)
        ELSE def(v)

\* change_to_alias without the assertion that dest has the type of the value
\* src resolves to.
change_to_alias_untyped(d, dest, src) ==
    LET original == resolve_aliases(d, src) IN
    IF original = Abort THEN Panic(d)
    ELSE IF dest = original THEN Panic(d)
    ELSE LET ty == value_type(d, original)
             e == expand(dest)
         IN  IF e.tag = "Table"
             THEN Ok([d EXCEPT !.extended_values[e.idx + 1] = ValueData_Alias(ty, original)], None)
             ELSE Panic(d)

\* change_to_alias without the assertion that dest is not the value src
\* resolves to.
change_to_alias_unasserted(d, dest, src) ==
    LET original == resolve_aliases(d, src) IN
    IF original = Abort THEN Panic(d)
    ELSE LET ty == value_type(d, original) IN
         IF value_type(d, dest) # ty THEN Panic(d)
         ELSE LET e == expand(dest) IN
              IF e.tag = "Table"
              THEN Ok([d EXCEPT !.extended_values[e.idx + 1] = ValueData_Alias(ty, original)], None)
              ELSE Panic(d)

\* change_to_alias that writes the alias into the slot of dest before it
\* compares the types.
change_to_alias_writes_first(d, dest, src) ==
    LET original == resolve_aliases(d, src) IN
    IF original = Abort THEN Panic(d)
    ELSE IF dest = original THEN Panic(d)
    ELSE LET ty == value_type(d, original)
             e == expand(dest)
             written == IF e.tag = "Table"
                        THEN [d EXCEPT !.extended_values[e.idx + 1] = ValueData_Alias(ty, original)]
                        ELSE d
         IN  IF value_type(d, dest) # ty THEN Panic(written)
             ELSE IF e.tag = "Table" THEN Ok(written, None)
             ELSE Panic(d)

change_to_alias(d, dest, src) ==
    LET original == resolve_aliases(d, src) IN
    IF original = Abort THEN Panic(d)
    ELSE IF dest = original THEN Panic(d)
    ELSE LET ty == value_type(d, original) IN
         IF value_type(d, dest) # ty THEN Panic(d)
         ELSE LET e == expand(dest) IN
              IF e.tag = "Table"
              THEN Ok([d EXCEPT !.extended_values[e.idx + 1] = ValueData_Alias(ty, original)], None)
              ELSE Panic(d)

\* make_value_alias that leaves the type of the new alias void instead of
\* copying the type of src.
make_value_alias_untyped(d, src) ==
    make_value(d, ValueData_Alias(VOID, src))

make_value_alias(d, src) ==
    make_value(d, ValueData_Alias(value_type(d, src), src))

(***************************************************************************)
(* Instructions.                                                           *)
(***************************************************************************)
\* make_inst that attaches the first result at once when the payload carries a
\* non-void first type.
make_inst_with_first_result(d, data) ==
    Ok([d EXCEPT !.results = Append(@, IF data.ty # VOID
                                       THEN <<new_direct(Len(d.insts))>>
                                       ELSE << >>),
                 !.insts = Append(@, data)],
       Len(d.insts))

make_inst(d, data) ==
    Ok([d EXCEPT !.results = Append(@, << >>), !.insts = Append(@, data)],
       Len(d.insts))

next_inst(d) == Len(d.insts)

inst_args(d, inst) == d.insts[inst + 1].args

first_result(d, inst) ==
    IF Len(d.results[inst + 1]) = 0 THEN Abort ELSE d.results[inst + 1][1]

has_results(d, inst) == Len(d.results[inst + 1]) # 0

inst_results(d, inst) == d.results[inst + 1]

call_signature(d, inst) ==
    LET info == analyze_call(d.insts[inst + 1]) IN
    CASE info.kind = "NotACall" -> None
      [] info.kind = "Direct" -> d.ext_funcs[info.ref + 1]
      [] info.kind = "Indirect" -> info.ref

\* compute_result_type that knows the fixed results only and never looks at
\* the call signature.
compute_result_type_fixed_only(d, inst, result_idx, ctrl_typevar) ==
    LET opcode == d.insts[inst + 1].opcode IN
    IF result_idx < fixed_results(opcode)
    THEN result_type(opcode, result_idx, ctrl_typevar)
    ELSE NoType

compute_result_type(d, inst, result_idx, ctrl_typevar) ==
    LET opcode == d.insts[inst + 1].opcode
        fixed == fixed_results(opcode)
        sig == call_signature(d, inst)
    IN  IF result_idx < fixed THEN result_type(opcode, result_idx, ctrl_typevar)
        ELSE IF sig = None THEN NoType
        ELSE IF result_idx - fixed < Len(d.signatures[sig + 1])
        THEN d.signatures[sig + 1][result_idx - fixed + 1]
        ELSE NoType

(***************************************************************************)
(* make_inst_results.  Both loops of the code run res_idx from the last    *)
(* index down to 0 over a list of types; st carries the DFG and the local  *)
(* variables head, first_type and rev_num.                                 *)
(***************************************************************************)
\* The loop of make_inst_results numbering the values it makes from rev_num
\* upwards instead of from total_results - rev_num downwards.
RECURSIVE results_loop_forward_num(_, _, _, _, _)
results_loop_forward_num(st, inst, tys, k, total_results) ==
    IF k = 0 THEN st
    ELSE LET made ==
                 IF st.first_type # NoType
                 THEN LET r == make_value(st.dfg,
                                          ValueData_Inst(st.first_type,
                                                         st.rev_num % (U16_MAX + 1),
                                                         inst,
                                                         st.head))
                      IN  [st EXCEPT !.dfg = [r.dfg EXCEPT !.results[inst + 1] = Append(@, r.ret)],
                                     !.head = r.ret,
                                     !.rev_num = @ + 1]
                 ELSE st
         IN  results_loop_forward_num([made EXCEPT !.first_type = tys[k]], inst, tys, k - 1,
                                      total_results)

RECURSIVE results_loop(_, _, _, _, _)
results_loop(st, inst, tys, k, total_results) ==
    IF k = 0 THEN st
    ELSE LET made ==
                 IF st.first_type # NoType
                 THEN LET r == make_value(st.dfg,
                                          ValueData_Inst(st.first_type,
                                                         (total_results - st.rev_num) % (U16_MAX + 1),
                                                         inst,
                                                         st.head))
                      IN  [st EXCEPT !.dfg = [r.dfg EXCEPT !.results[inst + 1] = Append(@, r.ret)],
                                     !.head = r.ret,
                                     !.rev_num = @ + 1]
                 ELSE st
         IN  results_loop([made EXCEPT !.first_type = tys[k]], inst, tys, k - 1, total_results)

\* make_inst_results that leaves the first type of the instruction as it was.
make_inst_results_keeps_type(d, inst, ctrl_typevar) ==
    LET opcode == d.insts[inst + 1].opcode
        fixed == fixed_results(opcode)
        sig == call_signature(d, inst)
        var_tys == IF sig = None THEN << >> ELSE d.signatures[sig + 1]
        fixed_tys == [n \in 1 .. fixed |-> result_type(opcode, n - 1, ctrl_typevar)]
        total_results == fixed + Len(var_tys)
        st0 == [dfg |-> [d EXCEPT !.results[inst + 1] = << >>],
                head |-> None, first_type |-> NoType, rev_num |-> 1]
        st1 == results_loop(st0, inst, var_tys, Len(var_tys), total_results)
        st2 == results_loop(st1, inst, fixed_tys, fixed, total_results)
        d3 == st2.dfg
        d4 == IF st2.first_type # NoType
              THEN [d3 EXCEPT !.results[inst + 1] = Append(@, new_direct(inst))]
              ELSE d3
    IN  Ok([d4 EXCEPT !.results[inst + 1] = Reverse(@)], total_results)

make_inst_results(d, inst, ctrl_typevar) ==
    LET opcode == d.insts[inst + 1].opcode
        fixed == fixed_results(opcode)
        sig == call_signature(d, inst)
        var_tys == IF sig = None THEN << >> ELSE d.signatures[sig + 1]
        fixed_tys == [n \in 1 .. fixed |-> result_type(opcode, n - 1, ctrl_typevar)]
        total_results == fixed + Len(var_tys)
        st0 == [dfg |-> [d EXCEPT !.results[inst + 1] = << >>],
                head |-> None, first_type |-> NoType, rev_num |-> 1]
        st1 == results_loop(st0, inst, var_tys, Len(var_tys), total_results)
        st2 == results_loop(st1, inst, fixed_tys, fixed, total_results)
        d3 == [st2.dfg EXCEPT !.insts[inst + 1].ty =
                   IF st2.first_type = NoType THEN VOID ELSE st2.first_type]
        d4 == IF st2.first_type # NoType
              THEN [d3 EXCEPT !.results[inst + 1] = Append(@, new_direct(inst))]
              ELSE d3
    IN  Ok([d4 EXCEPT !.results[inst + 1] = Reverse(@)], total_results)

\* detach_secondary_results that clears the whole result list, the first
\* result included.
detach_secondary_results_drops_first(d, inst) ==
    IF ~has_results(d, inst) THEN Ok(d, None)
    ELSE LET second == list_get(d.results[inst + 1], 1)
         IN  Ok([d EXCEPT !.results[inst + 1] = << >>], second)

detach_secondary_results(d, inst) ==
    IF ~has_results(d, inst) THEN Ok(d, None)
    ELSE LET second == list_get(d.results[inst + 1], 1)
             kept == IF d.insts[inst + 1].ty # VOID THEN <<new_direct(inst)>> ELSE << >>
         IN  Ok([d EXCEPT !.results[inst + 1] = kept], second)

next_secondary_result(d, value) ==
    LET e == expand(value) IN
    IF e.tag = "Table" /\ d.extended_values[e.idx + 1].kind = "Inst"
    THEN d.extended_values[e.idx + 1].next
    ELSE Abort

\* attach_secondary_result that updates inst and next of res and leaves its
\* num as it was.
attach_secondary_result_stale_num(d, last_res, res) ==
    LET l == expand(last_res)
        r == expand(res)
        last_ok == l.tag = "Direct"
                   \/ (d.extended_values[l.idx + 1].kind = "Inst"
                       /\ d.extended_values[l.idx + 1].next = None)
    IN  IF ~last_ok THEN Panic(d)
        ELSE LET res_inst == IF l.tag = "Direct" THEN l.idx
                             ELSE d.extended_values[l.idx + 1].inst
                 d1 == IF l.tag = "Direct" THEN d
                       ELSE [d EXCEPT !.extended_values[l.idx + 1].next = res]
                 res_num == Len(d1.results[res_inst + 1])
                 d2 == [d1 EXCEPT !.results[res_inst + 1] = Append(@, res)]
             IN  IF res_num > U16_MAX THEN Panic(d2)
                 ELSE IF r.tag = "Table" /\ d2.extended_values[r.idx + 1].kind = "Inst"
                 THEN Ok([d2 EXCEPT !.extended_values[r.idx + 1] =
                              [@ EXCEPT !.inst = res_inst,
                                        !.next = None]],
                         None)
                 ELSE Panic(d2)

\* attach_secondary_result that writes an instruction result into the slot of
\* res whatever the slot held.
attach_secondary_result_any_kind(d, last_res, res) ==
    LET l == expand(last_res)
        r == expand(res)
        last_ok == l.tag = "Direct"
                   \/ (d.extended_values[l.idx + 1].kind = "Inst"
                       /\ d.extended_values[l.idx + 1].next = None)
    IN  IF ~last_ok THEN Panic(d)
        ELSE LET res_inst == IF l.tag = "Direct" THEN l.idx
                             ELSE d.extended_values[l.idx + 1].inst
                 d1 == IF l.tag = "Direct" THEN d
                       ELSE [d EXCEPT !.extended_values[l.idx + 1].next = res]
                 res_num == Len(d1.results[res_inst + 1])
                 d2 == [d1 EXCEPT !.results[res_inst + 1] = Append(@, res)]
             IN  IF res_num > U16_MAX THEN Panic(d2)
                 ELSE IF r.tag = "Table"
                 THEN Ok([d2 EXCEPT !.extended_values[r.idx + 1] =
                              ValueData_Inst(@.ty, res_num % (U16_MAX + 1), res_inst, None)],
                         None)
                 ELSE Panic(d2)

attach_secondary_result(d, last_res, res) ==
    LET l == expand(last_res)
        r == expand(res)
        last_ok == l.tag = "Direct"
                   \/ (d.extended_values[l.idx + 1].kind = "Inst"
                       /\ d.extended_values[l.idx + 1].next = None)
    IN  IF ~last_ok THEN Panic(d)
        ELSE LET res_inst == IF l.tag = "Direct" THEN l.idx
                             ELSE d.extended_values[l.idx + 1].inst
                 d1 == IF l.tag = "Direct" THEN d
                       ELSE [d EXCEPT !.extended_values[l.idx + 1].next = res]
                 res_num == Len(d1.results[res_inst + 1])
                 d2 == [d1 EXCEPT !.results[res_inst + 1] = Append(@, res)]
             IN  IF res_num > U16_MAX THEN Panic(d2)
                 ELSE IF r.tag = "Table" /\ d2.extended_values[r.idx + 1].kind = "Inst"
                 THEN Ok([d2 EXCEPT !.extended_values[r.idx + 1] =
                              [@ EXCEPT !.num = res_num % (U16_MAX + 1),
                                        !.inst = res_inst,
                                        !.next = None]],
                         None)
                 ELSE Panic(d2)

append_secondary_result(d, last_res, ty) ==
    LET made == make_value(d, ValueData_Inst(ty, 0, 0, None))
        att == attach_secondary_result(made.dfg, last_res, made.ret)
    IN  IF att.abort THEN att ELSE Ok(att.dfg, made.ret)

(***************************************************************************)
(* ReplaceBuilder (ir::builder): dfg.replace(inst).copy(x) and the like    *)
(* overwrite the instruction in place and make its results again.          *)
(***************************************************************************)
replace(d, inst, data, ctrl_typevar) ==
    make_inst_results([d EXCEPT !.insts[inst + 1] = data], inst, ctrl_typevar)

replace_copy(d, inst, x) ==
    replace(d, inst, InstructionData("copy", VOID, <<x>>, None), value_type(d, x))

\* redefine_first_value that moves the result list to the new instruction
\* without rewriting its first entry.
redefine_first_value_keeps_first(d, orig) ==
    LET data == d.insts[orig + 1]
        results == d.results[orig + 1]
        d1 == [d EXCEPT !.results[orig + 1] = << >>]
        d2 == detach_secondary_results(d1, orig).dfg
        made == make_inst(d2, data)
        new == made.ret
    IN  IF Len(results) = 0 THEN Panic(made.dfg)
        ELSE LET d3 == [made.dfg EXCEPT !.results[new + 1] = results]
                 new_value == first_result(d3, new)
                 rep == replace_copy(d3, orig, new_value)
             IN  Ok(rep.dfg, new)

\* redefine_first_value that gives the new instruction its first result only
\* and loses the secondary results.
redefine_first_value_first_only(d, orig) ==
    LET data == d.insts[orig + 1]
        results == d.results[orig + 1]
        d1 == [d EXCEPT !.results[orig + 1] = << >>]
        d2 == detach_secondary_results(d1, orig).dfg
        made == make_inst(d2, data)
        new == made.ret
    IN  IF Len(results) = 0 THEN Panic(made.dfg)
        ELSE LET d3 == [made.dfg EXCEPT !.results[new + 1] = <<new_direct(new)>>]
                 new_value == first_result(d3, new)
                 rep == replace_copy(d3, orig, new_value)
             IN  Ok(rep.dfg, new)

redefine_first_value(d, orig) ==
    LET data == d.insts[orig + 1]
        results == d.results[orig + 1]
        d1 == [d EXCEPT !.results[orig + 1] = << >>]
        d2 == detach_secondary_results(d1, orig).dfg
        made == make_inst(d2, data)
        new == made.ret
    IN  IF Len(results) = 0 THEN Panic(made.dfg)
        ELSE LET moved == [results EXCEPT ![1] = new_direct(new)]
                 d3 == [made.dfg EXCEPT !.results[new + 1] = moved]
                 new_value == first_result(d3, new)
                 rep == replace_copy(d3, orig, new_value)
             IN  Ok(rep.dfg, new)

(***************************************************************************)
(* Extended basic blocks.                                                  *)
(***************************************************************************)
make_ebb(d) == Ok([d EXCEPT !.ebbs = Append(@, << >>)], Len(d.ebbs))

num_ebb_args(d, ebb) == Len(d.ebbs[ebb + 1])

ebb_args(d, ebb) == d.ebbs[ebb + 1]

\* attach_ebb_arg that appends arg and leaves its num as it was.
attach_ebb_arg_stale_num(d, ebb, arg) ==
    LET arg_num == Len(d.ebbs[ebb + 1])
        d1 == [d EXCEPT !.ebbs[ebb + 1] = Append(@, arg)]
        a == expand(arg)
    IN  IF arg_num > U16_MAX THEN Panic(d1)
        ELSE IF a.tag = "Table" /\ d1.extended_values[a.idx + 1].kind = "Arg"
        THEN IF d1.extended_values[a.idx + 1].ebb = ebb THEN Ok(d1, None) ELSE Panic(d1)
        ELSE Panic(d1)

\* attach_ebb_arg that pushes arg onto the list twice.
attach_ebb_arg_pushes_twice(d, ebb, arg) ==
    LET arg_num == Len(d.ebbs[ebb + 1])
        d1 == [d EXCEPT !.ebbs[ebb + 1] = Append(Append(@, arg), arg)]
        a == expand(arg)
    IN  IF arg_num > U16_MAX THEN Panic(d1)
        ELSE IF a.tag = "Table" /\ d1.extended_values[a.idx + 1].kind = "Arg"
        THEN LET d2 == [d1 EXCEPT !.extended_values[a.idx + 1].num = arg_num % (U16_MAX + 1)] IN
             IF d1.extended_values[a.idx + 1].ebb = ebb THEN Ok(d2, None) ELSE Panic(d2)
        ELSE Panic(d1)

attach_ebb_arg(d, ebb, arg) ==
    LET arg_num == Len(d.ebbs[ebb + 1])
        d1 == [d EXCEPT !.ebbs[ebb + 1] = Append(@, arg)]
        a == expand(arg)
    IN  IF arg_num > U16_MAX THEN Panic(d1)
        ELSE IF a.tag = "Table" /\ d1.extended_values[a.idx + 1].kind = "Arg"
        THEN LET d2 == [d1 EXCEPT !.extended_values[a.idx + 1].num = arg_num % (U16_MAX + 1)] IN
             IF d1.extended_values[a.idx + 1].ebb = ebb THEN Ok(d2, None) ELSE Panic(d2)
        ELSE Panic(d1)

append_ebb_arg(d, ebb, ty) ==
    LET made == make_value(d, ValueData_Arg(ty, 0, ebb))
        att == attach_ebb_arg(made.dfg, ebb, made.ret)
    IN  IF att.abort THEN att ELSE Ok(att.dfg, made.ret)

\* replace_ebb_arg that makes the new value with num 0, as append_ebb_arg
\* does, instead of the num of the old argument.
replace_ebb_arg_num_zero(d, old_arg, new_type) ==
    LET o == expand(old_arg) IN
    IF o.tag # "Table" THEN Panic(d)
    ELSE LET old_data == d.extended_values[o.idx + 1] IN
         IF old_data.kind # "Arg" THEN Panic(d)
         ELSE LET made == make_value(d, ValueData_Arg(new_type, 0, old_data.ebb)) IN
              IF old_data.num >= Len(made.dfg.ebbs[old_data.ebb + 1]) THEN Panic(made.dfg)
              ELSE Ok([made.dfg EXCEPT !.ebbs[old_data.ebb + 1][old_data.num + 1] = made.ret],
                      made.ret)

replace_ebb_arg(d, old_arg, new_type) ==
    LET o == expand(old_arg) IN
    IF o.tag # "Table" THEN Panic(d)
    ELSE LET old_data == d.extended_values[o.idx + 1] IN
         IF old_data.kind # "Arg" THEN Panic(d)
         ELSE LET made == make_value(d, ValueData_Arg(new_type, old_data.num, old_data.ebb)) IN
              IF old_data.num >= Len(made.dfg.ebbs[old_data.ebb + 1]) THEN Panic(made.dfg)
              ELSE Ok([made.dfg EXCEPT !.ebbs[old_data.ebb + 1][old_data.num + 1] = made.ret],
                      made.ret)

\* detach_ebb_args that returns the list and leaves it on the EBB.
detach_ebb_args_keeps(d, ebb) ==
    Ok(d, d.ebbs[ebb + 1])

\* detach_ebb_args that also removes the EBB from the map when it is the last
\* one, has no arguments and no extended value names it.
detach_ebb_args_drops_ebb(d, ebb) ==
    IF /\ ebb + 1 = Len(d.ebbs)
       /\ Len(d.ebbs[ebb + 1]) = 0
       /\ \A k \in 1 .. Len(d.extended_values) :
              d.extended_values[k].kind = "Arg" => d.extended_values[k].ebb # ebb
    THEN Ok([d EXCEPT !.ebbs = SubSeq(@, 1, Len(@) - 1)], << >>)
    ELSE Ok([d EXCEPT !.ebbs[ebb + 1] = << >>], d.ebbs[ebb + 1])

detach_ebb_args(d, ebb) ==
    Ok([d EXCEPT !.ebbs[ebb + 1] = << >>], d.ebbs[ebb + 1])

(***************************************************************************)
(* What the doc comments ask of a caller and the code does not check.      *)
(***************************************************************************)
Attached(d, v) ==
    \/ \E i \in Insts(d) : Occurs(d.results[i + 1], v)
    \/ \E b \in Ebbs(d) : Occurs(d.ebbs[b + 1], v)

IsLastResult(d, v) ==
    \E i \in Insts(d) :
        /\ Len(d.results[i + 1]) > 0
        /\ d.results[i + 1][Len(d.results[i + 1])] = v
        /\ expand(v).tag = "Direct" => expand(v).idx = i

Doc_value(d, v) ==
    expand(v).tag = "Direct" =>
        /\ has_results(d, expand(v).idx)
        /\ first_result(d, expand(v).idx) = v

Doc_attach_secondary_result(d, last_res, res) ==
    /\ IsLastResult(d, last_res)
    /\ expand(res).tag = "Table"
    /\ d.extended_values[expand(res).idx + 1].kind = "Inst"
    /\ ~Attached(d, res)

Doc_append_secondary_result(d, last_res) == IsLastResult(d, last_res)

Doc_replace(d, inst) == Len(d.results[inst + 1]) <= 1

Doc_attach_ebb_arg(d, ebb, arg) ==
    /\ expand(arg).tag = "Table"
    /\ d.extended_values[expand(arg).idx + 1].kind = "Arg"
    /\ d.extended_values[expand(arg).idx + 1].ebb = ebb
    /\ ~Attached(d, arg)

Doc_replace_ebb_arg(d, old_arg) ==
    /\ expand(old_arg).tag = "Table"
    /\ d.extended_values[expand(old_arg).idx + 1].kind = "Arg"
    /\ LET data == d.extended_values[expand(old_arg).idx + 1] IN
       list_get(d.ebbs[data.ebb + 1], data.num) = old_arg

(***************************************************************************)
(* The instructions a caller builds.                                       *)
(***************************************************************************)
Operands(d, doc) == {v \in Values(d) : doc => Doc_value(d, v)}

Payloads(d, doc) ==
    {InstructionData("trap", VOID, << >>, None)}
    \cup {InstructionData("iconst", ty, << >>, None) : ty \in {VOID, I32}}
    \cup {InstructionData("copy", VOID, <<x>>, None) : x \in Operands(d, doc)}
    \cup {InstructionData("iadd_cout", VOID, <<x, x>>, None) :
              x \in {v \in Operands(d, doc) : \A w \in Operands(d, doc) : v <= w}}
    \cup {InstructionData("call", VOID, << >>, f) : f \in 0 .. Len(d.ext_funcs) - 1}

(***************************************************************************)
(* The state machine.  A call that panics does not return: it is no step.  *)
(* With doc = TRUE the caller also keeps the documented preconditions.     *)
(***************************************************************************)
Init ==
    /\ dfg = DataFlowGraph_new
    /\ last = [op |-> "new", args |-> << >>, ret |-> None]
    /\ calls = 0

Returns(op, args, r) ==
    /\ calls < MaxCalls
    /\ calls' = calls + 1
    /\ ~r.abort
    /\ dfg' = r.dfg
    /\ last' = [op |-> op, args |-> args, ret |-> r.ret]

Do_make_inst(doc) ==
    /\ Len(dfg.insts) < MaxInsts
    /\ \E data \in Payloads(dfg, doc) :
           Returns("make_inst", <<data>>, make_inst(dfg, data))

Do_make_inst_results ==
    \E inst \in Insts(dfg), ctrl_typevar \in Types :
        LET r == make_inst_results(dfg, inst, ctrl_typevar) IN
        /\ Len(r.dfg.extended_values) <= MaxValues
        /\ Returns("make_inst_results", <<inst, ctrl_typevar>>, r)

Do_detach_secondary_results ==
    \E inst \in Insts(dfg) :
        Returns("detach_secondary_results", <<inst>>, detach_secondary_results(dfg, inst))

Do_attach_secondary_result(doc) ==
    \E last_res \in Values(dfg), res \in Values(dfg) :
        /\ doc => Doc_attach_secondary_result(dfg, last_res, res)
        /\ \A i \in Insts(dfg) : Len(dfg.results[i + 1]) < MaxList
        /\ Returns("attach_secondary_result", <<last_res, res>>,
                   attach_secondary_result(dfg, last_res, res))

Do_append_secondary_result(doc) ==
    /\ Len(dfg.extended_values) < MaxValues
    /\ \E last_res \in Values(dfg), ty \in Types :
           /\ doc => Doc_append_secondary_result(dfg, last_res)
           /\ \A i \in Insts(dfg) : Len(dfg.results[i + 1]) < MaxList
           /\ Returns("append_secondary_result", <<last_res, ty>>,
                      append_secondary_result(dfg, last_res, ty))

Do_redefine_first_value ==
    /\ Len(dfg.insts) < MaxInsts
    /\ \E orig \in Insts(dfg) :
           Returns("redefine_first_value", <<orig>>, redefine_first_value(dfg, orig))

Do_replace_copy(doc) ==
    \E inst \in Insts(dfg), x \in Operands(dfg, doc) :
        /\ doc => Doc_replace(dfg, inst)
        /\ Returns("replace_copy", <<inst, x>>, replace_copy(dfg, inst, x))

Do_change_to_alias(doc) ==
    \E dest \in Values(dfg), src \in Operands(dfg, doc) :
        Returns("change_to_alias", <<dest, src>>, change_to_alias(dfg, dest, src))

Do_make_value_alias(doc) ==
    /\ Len(dfg.extended_values) < MaxValues
    /\ \E src \in Operands(dfg, doc) :
           Returns("make_value_alias", <<src>>, make_value_alias(dfg, src))

Do_make_ebb ==
    /\ Len(dfg.ebbs) < MaxEbbs
    /\ Returns("make_ebb", << >>, make_ebb(dfg))

Do_append_ebb_arg ==
    /\ Len(dfg.extended_values) < MaxValues
    /\ \E ebb \in Ebbs(dfg), ty \in Types :
           /\ Len(dfg.ebbs[ebb + 1]) < MaxList
           /\ Returns("append_ebb_arg", <<ebb, ty>>, append_ebb_arg(dfg, ebb, ty))

Do_attach_ebb_arg(doc) ==
    \E ebb \in Ebbs(dfg), arg \in Values(dfg) :
        /\ doc => Doc_attach_ebb_arg(dfg, ebb, arg)
        /\ Len(dfg.ebbs[ebb + 1]) < MaxList
        /\ Returns("attach_ebb_arg", <<ebb, arg>>, attach_ebb_arg(dfg, ebb, arg))

Do_detach_ebb_args ==
    \E ebb \in Ebbs(dfg) :
        Returns("detach_ebb_args", <<ebb>>, detach_ebb_args(dfg, ebb))

Do_replace_ebb_arg(doc) ==
    /\ Len(dfg.extended_values) < MaxValues
    /\ \E old_arg \in Values(dfg), new_type \in Types :
           /\ doc => Doc_replace_ebb_arg(dfg, old_arg)
           /\ Returns("replace_ebb_arg", <<old_arg, new_type>>,
                      replace_ebb_arg(dfg, old_arg, new_type))

Next ==
    \/ Do_make_inst(FALSE)
    \/ Do_make_inst_results
    \/ Do_detach_secondary_results
    \/ Do_attach_secondary_result(FALSE)
    \/ Do_append_secondary_result(FALSE)
    \/ Do_redefine_first_value
    \/ Do_replace_copy(FALSE)
    \/ Do_change_to_alias(FALSE)
    \/ Do_make_value_alias(FALSE)
    \/ Do_make_ebb
    \/ Do_append_ebb_arg
    \/ Do_attach_ebb_arg(FALSE)
    \/ Do_detach_ebb_args
    \/ Do_replace_ebb_arg(FALSE)

Spec == Init /\ [][Next]_vars

NextDoc ==
    \/ Do_make_inst(TRUE)
    \/ Do_make_inst_results
    \/ Do_detach_secondary_results
    \/ Do_attach_secondary_result(TRUE)
    \/ Do_append_secondary_result(TRUE)
    \/ Do_redefine_first_value
    \/ Do_replace_copy(TRUE)
    \/ Do_change_to_alias(TRUE)
    \/ Do_make_value_alias(TRUE)
    \/ Do_make_ebb
    \/ Do_append_ebb_arg
    \/ Do_attach_ebb_arg(TRUE)
    \/ Do_detach_ebb_args
    \/ Do_replace_ebb_arg(TRUE)

SpecDoc == Init /\ [][NextDoc]_vars

(***************************************************************************)
(* Properties.                                                             *)
(***************************************************************************)
Slot(d, v) == d.extended_values[expand(v).idx + 1]

IsKind(d, v, kind) == expand(v).tag = "Table" /\ Slot(d, v).kind = kind

C2_EveryArgSlotListed ==
    \A k \in Tables(dfg) :
        LET v == new_table(k) IN
        Slot(dfg, v).kind = "Arg" =>
            list_get(dfg.ebbs[Slot(dfg, v).ebb + 1], Slot(dfg, v).num) = v

\* C2, amended: when callers attach only detached arguments and replace only
\* attached ones, every extended value of kind Arg{ebb, num} that occurs in an
\* argument list occurs in the list of ebb, at position num and nowhere else;
\* a detached or replaced argument keeps the ebb and num it had.
C2_AttachedArgSlotListed ==
    \A k \in Tables(dfg), b \in Ebbs(dfg), n \in 0 .. MaxList :
        LET v == new_table(k) IN
        (Slot(dfg, v).kind = "Arg" /\ list_get(dfg.ebbs[b + 1], n) = v) =>
            Slot(dfg, v).ebb = b /\ Slot(dfg, v).num = n

\* C2 witness: replace_ebb_arg has put a new argument in the place of an old
\* one, which is left detached with the position it had.
C2_Witness ==
    /\ last.op = "replace_ebb_arg"
    /\ Slot(dfg, last.ret).kind = "Arg"
    /\ list_get(dfg.ebbs[Slot(dfg, last.ret).ebb + 1], Slot(dfg, last.ret).num) = last.ret
    /\ Slot(dfg, last.args[1]).kind = "Arg"
    /\ ~Attached(dfg, last.args[1])

\* C3: the first entry of every non-empty result list is the direct value of
\* its instruction, and the instruction's first type is the type of that entry.
C3_FirstResultIsDirect ==
    \A i \in Insts(dfg) :
        Len(dfg.results[i + 1]) > 0 =>
            /\ dfg.results[i + 1][1] = new_direct(i)
            /\ dfg.insts[i + 1].ty = value_type(dfg, dfg.results[i + 1][1])

\* C4: aliases never form a cycle: resolve_aliases returns for every valid
\* value within its 1 + |extended_values| iterations.
C4_NoAliasLoop ==
    \A v \in Values(dfg) : resolve_aliases(dfg, v) # Abort

\* C4 witness: change_to_alias has redirected a value that other aliases
\* already pointed to, leaving an alias chain of two links.
C4_Witness ==
    /\ last.op = "change_to_alias"
    /\ \E v \in Values(dfg) :
           /\ IsKind(dfg, v, "Alias")
           /\ Slot(dfg, v).original = last.args[1]
           /\ IsKind(dfg, last.args[1], "Alias")

(***************************************************************************)
(* The chain of aliases and copies that starts at a value: an alias is     *)
(* followed by its original, the first result of a copy, spill or fill by  *)
(* the argument of that instruction, and every other value ends the chain. *)
(***************************************************************************)
IsCopyResult(d, v) ==
    /\ expand(v).tag = "Direct"
    /\ d.insts[expand(v).idx + 1].opcode \in CopyOpcodes

ChainNext(d, v) ==
    IF IsKind(d, v, "Alias") THEN Slot(d, v).original
    ELSE IF IsCopyResult(d, v) THEN d.insts[expand(v).idx + 1].args[1]
    ELSE None

RECURSIVE ChainWalk(_, _, _)
ChainWalk(d, v, fuel) ==
    IF ChainNext(d, v) = None THEN v
    ELSE IF fuel = 0 THEN None
    ELSE ChainWalk(d, ChainNext(d, v), fuel - 1)

ChainEnd(d, v) == ChainWalk(d, v, Cardinality(Values(d)))

ChainAcyclic(d, v) == ChainEnd(d, v) # None

C6_RedefinedSecondariesNameNew ==
    last.op = "redefine_first_value" =>
        \A n \in 1 .. Len(dfg.results[last.ret + 1]) - 1 :
            LET s == dfg.results[last.ret + 1][n + 1] IN
            IsKind(dfg, s, "Inst") =>
                /\ Slot(dfg, s).inst = last.ret
                /\ Slot(dfg, s).num = n
                /\ value_def(dfg, s) = [kind |-> "Res", of |-> last.ret, num |-> n]

(***************************************************************************)
(* Detaching the secondary results of inst, walking the chain that         *)
(* detach_secondary_results returns and attaching its values again in      *)
(* order, each after the one before it.                                    *)
(***************************************************************************)
RECURSIVE secondary_chain(_, _, _)
secondary_chain(d, v, fuel) ==
    IF v = None \/ fuel = 0 THEN << >>
    ELSE LET next == next_secondary_result(d, v) IN
         IF next = Abort THEN <<v>>
         ELSE <<v>> \o secondary_chain(d, next, fuel - 1)

RECURSIVE attach_chain(_, _, _, _)
attach_chain(d, last_res, chain, n) ==
    IF n > Len(chain) THEN Ok(d, None)
    ELSE LET r == attach_secondary_result(d, last_res, chain[n]) IN
         IF r.abort THEN r ELSE attach_chain(r.dfg, chain[n], chain, n + 1)

detach_attach(d, inst) ==
    LET det == detach_secondary_results(d, inst)
        chain == secondary_chain(det.dfg, det.ret, Len(d.extended_values))
    IN  attach_chain(det.dfg, d.results[inst + 1][1], chain, 1)

HasSecondaryResults(d, inst) ==
    /\ Len(d.results[inst + 1]) >= 2
    /\ d.results[inst + 1][1] = new_direct(inst)
    /\ \A n \in 2 .. Len(d.results[inst + 1]) : IsKind(d, d.results[inst + 1][n], "Inst")

\* C7: detaching the secondary results of an instruction and attaching the
\* returned chain again in order restores its result list and the type,
\* instruction, number and next link of every secondary result.
C7_DetachAttachRestores ==
    \A inst \in Insts(dfg) :
        HasSecondaryResults(dfg, inst) =>
            LET r == detach_attach(dfg, inst) IN
            /\ ~r.abort
            /\ r.dfg.results[inst + 1] = dfg.results[inst + 1]
            /\ \A n \in 2 .. Len(dfg.results[inst + 1]) :
                   Slot(r.dfg, dfg.results[inst + 1][n]) = Slot(dfg, dfg.results[inst + 1][n])

\* C8: resolve_copies of a valid value whose chain of aliases and copies has no
\* cycle returns the first value of the chain that is neither an alias nor the
\* first result of a copy, spill or fill.
C8_ResolveCopiesReturnsChainEnd ==
    \A v \in Values(dfg) :
        ChainAcyclic(dfg, v) => resolve_copies(dfg, v) = ChainEnd(dfg, v)

\* C9: resolve_copies is idempotent on every valid value whose chain has no
\* cycle: it returns, and resolve_copies of what it returns is the same value.
C9_ResolveCopiesIdempotent ==
    \A v \in Values(dfg) :
        ChainAcyclic(dfg, v) =>
            /\ resolve_copies(dfg, v) # Abort
            /\ resolve_copies(dfg, resolve_copies(dfg, v)) = resolve_copies(dfg, v)

\* C10: resolve_aliases of a valid value returns a value that is no alias, a
\* direct value unchanged even when it is the result of a copy, and resolving
\* the returned value again returns it.
C10_ResolveAliasesIdempotent ==
    \A v \in Values(dfg) :
        LET r == resolve_aliases(dfg, v) IN
        /\ r \in Values(dfg)
        /\ ~IsKind(dfg, r, "Alias")
        /\ expand(v).tag = "Direct" => r = v
        /\ resolve_aliases(dfg, r) = r

\* C10 witness: an alias of an alias of the first result of a copy.
C10_Witness ==
    \E v \in Values(dfg) :
        /\ IsKind(dfg, v, "Alias")
        /\ IsKind(dfg, Slot(dfg, v).original, "Alias")
        /\ IsCopyResult(dfg, resolve_aliases(dfg, v))
        /\ last.op = "make_value_alias"
        /\ last.ret = v

ResultTypes(d, inst, ctrl_typevar) ==
    LET opcode == d.insts[inst + 1].opcode
        sig == call_signature(d, inst)
    IN  [n \in 1 .. fixed_results(opcode) |-> result_type(opcode, n - 1, ctrl_typevar)]
        \o (IF sig = None THEN << >> ELSE d.signatures[sig + 1])

\* C12: make_inst_results returns the number of fixed results plus return
\* types; afterwards the result list has that length, starts with the direct
\* value, every later entry k is a table value of kind Inst{inst, k} with the
\* type of result k, and the first type is the type of result 0 or void.
C12_MakeInstResultsPost ==
    last.op = "make_inst_results" =>
        LET inst == last.args[1]
            tys == ResultTypes(dfg, inst, last.args[2])
            res == dfg.results[inst + 1]
        IN  /\ last.ret = Len(tys)
            /\ inst_results(dfg, inst) = res
            /\ Len(res) = Len(tys)
            /\ Len(tys) > 0 => res[1] = new_direct(inst)
            /\ \A k \in 1 .. Len(tys) - 1 :
                   /\ IsKind(dfg, res[k + 1], "Inst")
                   /\ Slot(dfg, res[k + 1]).inst = inst
                   /\ Slot(dfg, res[k + 1]).num = k
                   /\ value_type(dfg, res[k + 1]) = tys[k + 1]
            /\ dfg.insts[inst + 1].ty = (IF Len(tys) > 0 THEN tys[1] ELSE VOID)

\* C12 witness: make_inst_results has made the three results of a call.
C12_Witness ==
    /\ last.op = "make_inst_results"
    /\ last.ret = 3
    /\ dfg.insts[last.args[1] + 1].opcode = "call"

\* C13: for every instruction, controlling type t and index k,
\* compute_result_type is the type make_inst_results with t gives to result k
\* when k is below the count it returns, and no type otherwise.
C13_ComputeResultTypeAgrees ==
    \A inst \in Insts(dfg), t \in Types \cup {VOID}, k \in 0 .. MaxList :
        LET r == make_inst_results(dfg, inst, t) IN
        compute_result_type(dfg, inst, k, t) =
            (IF k < r.ret
             THEN value_type(r.dfg, inst_results(r.dfg, inst)[k + 1])
             ELSE NoType)

\* C13 witness: a call whose results have not been made; its result 2 has the
\* type of the last return type and it has no result 3.
C13_Witness ==
    \E inst \in Insts(dfg) :
        /\ dfg.insts[inst + 1].opcode = "call"
        /\ ~has_results(dfg, inst)
        /\ compute_result_type(dfg, inst, 2, I32) = I32
        /\ compute_result_type(dfg, inst, 3, I32) = NoType
        /\ make_inst_results(dfg, inst, I32).ret = 3

\* C14: a change_to_alias(dest, src) that returns leaves dest and src resolving
\* to the value src resolved to before, keeps the type of dest, and changes
\* no extended value other than dest, no result list, no argument list and no
\* instruction.
C14_ChangeToAliasPost ==
    [][last'.op = "change_to_alias" =>
          LET dest == last'.args[1]
              src == last'.args[2]
              original == resolve_aliases(dfg, src)
          IN  /\ original # Abort
              /\ resolve_aliases(dfg', dest) = original
              /\ resolve_aliases(dfg', src) = original
              /\ value_type(dfg', dest) = value_type(dfg, dest)
              /\ Len(dfg'.extended_values) = Len(dfg.extended_values)
              /\ \A k \in Tables(dfg) :
                     new_table(k) # dest =>
                         dfg'.extended_values[k + 1] = dfg.extended_values[k + 1]
              /\ dfg'.results = dfg.results
              /\ dfg'.ebbs = dfg.ebbs
              /\ dfg'.insts = dfg.insts]_vars

\* C14 witness: change_to_alias has been given a src that is itself an alias,
\* and dest now points at the value that alias resolves to.
C14_Witness ==
    /\ last.op = "change_to_alias"
    /\ last.args[1] # last.args[2]
    /\ IsKind(dfg, last.args[2], "Alias")
    /\ IsKind(dfg, last.args[1], "Alias")
    /\ Slot(dfg, last.args[1]).original = resolve_aliases(dfg, last.args[2])

\* C15: replace_ebb_arg(old, new_type) on an argument old that is attached at
\* position k of ebb, and only there, returns a fresh value of type new_type
\* defined as Arg(ebb, k); it stands at position k, the length and the other
\* positions of the list are as before, old is no longer in the list and
\* keeps its type.
C15_ReplaceEbbArgPost ==
    [][last'.op = "replace_ebb_arg" =>
          LET old == last'.args[1]
              new == last'.ret
              ebb == Slot(dfg, old).ebb
              k == Slot(dfg, old).num
              before == dfg.ebbs[ebb + 1]
              after == dfg'.ebbs[ebb + 1]
          IN  (\A n \in 0 .. Len(before) - 1 : (before[n + 1] = old) <=> (n = k)) =>
                  /\ ~value_is_valid(dfg, new)
                  /\ value_is_valid(dfg', new)
                  /\ value_type(dfg', new) = last'.args[2]
                  /\ value_def(dfg', new) = [kind |-> "Arg", of |-> ebb, num |-> k]
                  /\ ebb_args(dfg', ebb) = after
                  /\ Len(after) = Len(before)
                  /\ \A n \in 0 .. Len(before) - 1 :
                         after[n + 1] = (IF n = k THEN new ELSE before[n + 1])
                  /\ ~Occurs(after, old)
                  /\ value_type(dfg', old) = value_type(dfg, old)]_vars

\* C15 witness: replace_ebb_arg has replaced the second of two arguments by a
\* value of another type.
C15_Witness ==
    /\ last.op = "replace_ebb_arg"
    /\ Slot(dfg, last.ret).num = 1
    /\ Len(dfg.ebbs[Slot(dfg, last.ret).ebb + 1]) = 2
    /\ dfg.ebbs[Slot(dfg, last.ret).ebb + 1][2] = last.ret
    /\ value_type(dfg, last.ret) # value_type(dfg, last.args[1])
    /\ ~Attached(dfg, last.args[1])

(***************************************************************************)
(* The arguments of ebb that are not on its list, and the property that    *)
(* every value on the list of ebb is defined as the argument of ebb at its *)
(* position.  A list built from the empty one by attaching detached        *)
(* arguments and appending new ones is well placed after every step when   *)
(* each such step keeps it so and appends at the end.                      *)
(***************************************************************************)
DetachedArgs(d, ebb) ==
    {v \in Values(d) : /\ IsKind(d, v, "Arg")
                       /\ Slot(d, v).ebb = ebb
                       /\ ~Occurs(d.ebbs[ebb + 1], v)}

WellPlaced(d, ebb) ==
    \A n \in 1 .. Len(d.ebbs[ebb + 1]) :
        value_def(d, d.ebbs[ebb + 1][n]) = [kind |-> "Arg", of |-> ebb, num |-> n - 1]

\* C16: detach_ebb_args(ebb) returns the arguments ebb had, in order, and
\* leaves it with none; from then on every attach_ebb_arg of a detached
\* argument of ebb and every append_ebb_arg puts its value at the end of the
\* list, so that the list is the values in call order, and leaves every value
\* of the list defined as Arg(ebb, its position).
C16_DetachReattachEbbArgs ==
    [][LET ebb == last'.args[1]
           before == dfg.ebbs[ebb + 1]
           after == dfg'.ebbs[ebb + 1]
       IN  /\ last'.op = "detach_ebb_args" =>
                  /\ last'.ret = before
                  /\ num_ebb_args(dfg', ebb) = 0
                  /\ ebb_args(dfg', ebb) = << >>
                  /\ WellPlaced(dfg', ebb)
           /\ (/\ last'.op = "attach_ebb_arg"
               /\ last'.args[2] \in DetachedArgs(dfg, ebb)
               /\ WellPlaced(dfg, ebb)) =>
                  /\ ebb_args(dfg', ebb) = Append(before, last'.args[2])
                  /\ WellPlaced(dfg', ebb)
           /\ (last'.op = "append_ebb_arg" /\ WellPlaced(dfg, ebb)) =>
                  /\ ~value_is_valid(dfg, last'.ret)
                  /\ value_type(dfg', last'.ret) = last'.args[2]
                  /\ ebb_args(dfg', ebb) = Append(before, last'.ret)
                  /\ WellPlaced(dfg', ebb)]_vars

\* C16 witness: attach_ebb_arg has put a detached argument of an EBB at the
\* end of its list, where it is defined as the argument at that position.
C16_Witness ==
    /\ last.op = "attach_ebb_arg"
    /\ Len(dfg.ebbs[last.args[1] + 1]) >= 1
    /\ dfg.ebbs[last.args[1] + 1][Len(dfg.ebbs[last.args[1] + 1])] = last.args[2]
    /\ WellPlaced(dfg, last.args[1])

\* C17: after new = redefine_first_value at an instruction orig whose results
\* were [Direct(orig), s1, ..., sn], orig is a copy of Direct(new) with the
\* single result Direct(orig), the results of new are [Direct(new), s1, ...,
\* sn], and both first results have the first type orig had.
C17_RedefineFirstValuePost ==
    [][last'.op = "redefine_first_value" =>
          LET orig == last'.args[1]
              new == last'.ret
              before == dfg.results[orig + 1]
          IN  (Len(before) > 0 /\ before[1] = new_direct(orig)) =>
                  /\ new = Len(dfg.insts)
                  /\ dfg'.insts[orig + 1].opcode = "copy"
                  /\ inst_args(dfg', orig) = <<new_direct(new)>>
                  /\ inst_results(dfg', orig) = <<new_direct(orig)>>
                  /\ inst_results(dfg', new) = [before EXCEPT ![1] = new_direct(new)]
                  /\ dfg'.insts[new + 1].opcode = dfg.insts[orig + 1].opcode
                  /\ value_type(dfg', new_direct(new)) = dfg.insts[orig + 1].ty
                  /\ value_type(dfg', new_direct(orig)) = dfg.insts[orig + 1].ty]_vars

\* C17 witness: redefine_first_value has moved an iadd_cout with its two
\* results and left a copy in its place.
C17_Witness ==
    /\ last.op = "redefine_first_value"
    /\ dfg.insts[last.ret + 1].opcode = "iadd_cout"
    /\ Len(dfg.results[last.ret + 1]) = 2
    /\ dfg.results[last.ret + 1][1] = new_direct(last.ret)
    /\ dfg.results[last.args[1] + 1] = <<new_direct(last.args[1])>>

\* The places where value v stands: <<"inst", i, k>> for entry k of the result
\* list of instruction i, <<"ebb", b, k>> for entry k of the argument list of
\* EBB b.
Memberships(d, v) ==
    LET places(tag, lists) ==
            UNION {{<<tag, j - 1, k>> : k \in {n \in 1 .. Len(lists[j]) : lists[j][n] = v}} :
                       j \in 1 .. Len(lists)}
    IN  places("inst", d.results) \cup places("ebb", d.ebbs)

\* C18, as the spec states it: in every state the code can reach, a value
\* stands in at most one place of all result lists and argument lists.
C18_ValueInAtMostOneList ==
    \A v \in Values(dfg) : Cardinality(Memberships(dfg, v)) <= 1

\* Every value stands in at most one place of all the lists of d.
InAtMostOneList(d) ==
    \A v \in Values(d) : Cardinality(Memberships(d, v)) <= 1

\* C18, amended: a step from a state where every value stands in at most one
\* place leads to such a state again, provided that an attach_secondary_result
\* or attach_ebb_arg step is given a value that stands in no list, as the doc
\* comments of the two operations require; every other operation keeps the
\* property whatever its arguments are.
C18_DetachedAttachKeepsOneList ==
    [][(/\ InAtMostOneList(dfg)
        /\ last'.op \in {"attach_secondary_result", "attach_ebb_arg"} =>
               ~Attached(dfg, last'.args[2]))
       => InAtMostOneList(dfg')]_vars

\* C18 witness: attach_secondary_result has put a detached secondary result
\* behind the first result of an instruction, and it stands there only.
C18_Witness ==
    /\ last.op = "attach_secondary_result"
    /\ \E i \in Insts(dfg), k \in 2 .. MaxList :
           Memberships(dfg, last.args[2]) = {<<"inst", i, k>>}
    /\ InAtMostOneList(dfg)

\* C19: no step makes the instruction map, the EBB map or the extended-value
\* table shorter, so an instruction, EBB or value that is valid before a step
\* is valid after it; and a direct value is valid exactly when its instruction
\* index is below the number of instructions, a table value exactly when its
\* index is below the length of the extended-value table.
C19_HandlesStayValid ==
    [][/\ Len(dfg'.insts) >= Len(dfg.insts)
       /\ Len(dfg'.ebbs) >= Len(dfg.ebbs)
       /\ Len(dfg'.extended_values) >= Len(dfg.extended_values)
       /\ \A i \in 0 .. MaxInsts + 1 : inst_is_valid(dfg, i) => inst_is_valid(dfg', i)
       /\ \A b \in 0 .. MaxEbbs + 1 : ebb_is_valid(dfg, b) => ebb_is_valid(dfg', b)
       /\ \A v \in 0 .. 2 * (MaxInsts + MaxValues) + 3 :
              /\ value_is_valid(dfg, v) => value_is_valid(dfg', v)
              /\ value_is_valid(dfg', v) <=>
                     IF expand(v).tag = "Direct"
                     THEN expand(v).idx < Len(dfg'.insts)
                     ELSE expand(v).idx < Len(dfg'.extended_values)]_vars

\* C19 witness: detach_ebb_args has taken a non-empty argument list off an
\* EBB, and the EBB and every detached argument are still valid.
C19_Witness ==
    /\ last.op = "detach_ebb_args"
    /\ Len(last.ret) > 0
    /\ ebb_is_valid(dfg, last.args[1])
    /\ Len(dfg.ebbs[last.args[1] + 1]) = 0
    /\ \A k \in 1 .. Len(last.ret) :
           value_is_valid(dfg, last.ret[k]) /\ ~Attached(dfg, last.ret[k])

\* C20: a slot of the extended-value table that holds an alias before a step
\* holds an alias after it, and its target is the same unless the step is a
\* change_to_alias call on that very value.
C20_AliasStaysAlias ==
    [][\A k \in Tables(dfg) :
           LET v == new_table(k) IN
           Slot(dfg, v).kind = "Alias" =>
               /\ Slot(dfg', v).kind = "Alias"
               /\ Slot(dfg', v).original # Slot(dfg, v).original =>
                      last'.op = "change_to_alias" /\ last'.args[1] = v]_vars

\* C20 witness: one of the operations that write slots or lists has acted in a
\* state that has an alias, and the alias is still there.
C20_Witness ==
    /\ last.op \in {"attach_secondary_result", "attach_ebb_arg", "replace_ebb_arg",
                     "make_inst_results", "redefine_first_value"}
    /\ \E k \in Tables(dfg) :
           /\ new_table(k) # last.ret
           /\ Slot(dfg, new_table(k)).kind = "Alias"
           /\ value_is_valid(dfg, Slot(dfg, new_table(k)).original)

C22_ResultsInLockstep ==
    [][/\ Len(dfg.results) = Len(dfg.insts)
       /\ Len(dfg'.results) = Len(dfg'.insts)
       /\ last'.op = "make_inst" =>
              /\ last'.ret = Len(dfg.insts)
              /\ Len(dfg'.insts) = Len(dfg.insts) + 1
              /\ ~has_results(dfg', last'.ret)
              /\ \A i \in Insts(dfg) : dfg'.results[i + 1] = dfg.results[i + 1]
       /\ \A i \in Insts(dfg) :
              (~has_results(dfg, i) /\ has_results(dfg', i)) =>
                  last'.op \in {"make_inst_results", "replace_copy",
                                "attach_secondary_result", "append_secondary_result"}]_vars

\* C22 witness: make_inst has created an instruction whose opcode produces
\* results; it has none yet, and an older instruction has kept its two or more.
C22_Witness ==
    /\ last.op = "make_inst"
    /\ fixed_results(dfg.insts[last.ret + 1].opcode) > 0
    /\ ~has_results(dfg, last.ret)
    /\ Len(dfg.results) = Len(dfg.insts)
    /\ \E i \in Insts(dfg) : Len(dfg.results[i + 1]) >= 2

\* The next links of the secondary results of inst agree with its result
\* list: each secondary result links to the entry after it, the last to none.
ChainAgrees(d, inst) ==
    LET list == d.results[inst + 1] IN
    \A k \in 2 .. Len(list) :
        next_secondary_result(d, list[k]) = IF k < Len(list) THEN list[k + 1] ELSE None

\* The instruction attach_secondary_result pushes res onto.
AttachTarget(d, last_res) ==
    IF expand(last_res).tag = "Direct" THEN expand(last_res).idx
    ELSE Slot(d, last_res).inst

\* C23: after make_inst_results the next links of the secondary results agree
\* with the result list and detach_secondary_results would return the second
\* result; and every append_secondary_result, and every attach_secondary_result
\* of a detached value, on an instruction whose links agree with its list
\* leaves them in agreement.
C23_NextLinksFollowResults ==
    [][/\ last'.op = "make_inst_results" =>
              /\ ChainAgrees(dfg', last'.args[1])
              /\ detach_secondary_results(dfg', last'.args[1]).ret =
                     list_get(dfg'.results[last'.args[1] + 1], 1)
       /\ (\/ last'.op = "append_secondary_result"
           \/ last'.op = "attach_secondary_result" /\ ~Attached(dfg, last'.args[2])) =>
              LET inst == AttachTarget(dfg, last'.args[1]) IN
              ChainAgrees(dfg, inst) => ChainAgrees(dfg', inst)]_vars

\* C24: detach_secondary_results(inst) returns the second entry of the result
\* list, or none when the list has fewer than two entries; afterwards the
\* result list of inst is [Direct(inst)] when inst had results and a non-void
\* first type; the extended-value table, the instructions, the EBBs and the
\* result lists of all other instructions are unchanged; and a second call
\* returns none and changes nothing.
C24_DetachSecondaryResultsPost ==
    [][last'.op = "detach_secondary_results" =>
          LET inst == last'.args[1]
              before == dfg.results[inst + 1]
          IN  /\ last'.ret = IF Len(before) >= 2 THEN before[2] ELSE None
              /\ (Len(before) > 0 /\ dfg.insts[inst + 1].ty # VOID) =>
                     inst_results(dfg', inst) = <<new_direct(inst)>>
              /\ Len(before) = 0 => dfg' = dfg
              /\ dfg'.extended_values = dfg.extended_values
              /\ dfg'.insts = dfg.insts
              /\ dfg'.ebbs = dfg.ebbs
              /\ \A j \in Insts(dfg) : j # inst => dfg'.results[j + 1] = dfg.results[j + 1]
              /\ detach_secondary_results(dfg', inst) = Ok(dfg', None)]_vars

\* C24 witness: detach_secondary_results has returned the first of two
\* secondary results; the instruction keeps its first result only, and the
\* returned value still names the instruction and links to the next one.
C24_Witness ==
    /\ last.op = "detach_secondary_results"
    /\ last.ret # None
    /\ dfg.results[last.args[1] + 1] = <<new_direct(last.args[1])>>
    /\ Slot(dfg, last.ret).inst = last.args[1]
    /\ Slot(dfg, last.ret).next # None
    /\ ~Attached(dfg, last.ret)

\* C25: attach_secondary_result(last_res, res) aborts unless last_res is the
\* last result of its instruction: a table last_res must be an instruction
\* result with an empty next link, and a direct last_res must belong to an
\* instruction that has exactly one result.
C25_AttachAbortsUnlessLast ==
    \A last_res \in Values(dfg), res \in Values(dfg) :
        LET l == expand(last_res)
            is_last == IF l.tag = "Direct"
                       THEN Len(dfg.results[l.idx + 1]) = 1
                       ELSE /\ Slot(dfg, last_res).kind = "Inst"
                            /\ Slot(dfg, last_res).next = None
        IN  ~is_last => attach_secondary_result(dfg, last_res, res).abort

\* What C26 expects of the state `after` in which r has been attached behind the m
\* results `before` of inst, the last of which is last_res.
AttachedBehind(after, inst, before, last_res, r, ty) ==
    /\ inst_results(after, inst) = Append(before, r)
    /\ Slot(after, r) = ValueData_Inst(ty, Len(before), inst, None)
    /\ expand(last_res).tag = "Table" => Slot(after, last_res).next = r
    /\ value_def(after, r) = [kind |-> "Res", of |-> inst, num |-> Len(before)]

\* C26: when last_res is the last of the m results of inst, attaching a
\* detached secondary result r behind it gives the old list followed by r,
\* makes the slot of r Inst{inst, m, no next} with the type it had, links a
\* table last_res to r and makes value_def(r) = Res(inst, m); and
\* append_secondary_result does the same with a new value of the given type
\* and returns it.
C26_AttachSecondaryResultPost ==
    \A inst \in Insts(dfg) :
        LET before == dfg.results[inst + 1] IN
        (Len(before) > 0 /\ before[1] = new_direct(inst)) =>
            LET last_res == before[Len(before)] IN
            /\ \A k \in Tables(dfg) :
                   LET r == new_table(k)
                       a == attach_secondary_result(dfg, last_res, r)
                   IN  (Slot(dfg, r).kind = "Inst" /\ ~Attached(dfg, r) /\ ~a.abort) =>
                           AttachedBehind(a.dfg, inst, before, last_res, r, Slot(dfg, r).ty)
            /\ \A ty \in Types :
                   LET a == append_secondary_result(dfg, last_res, ty) IN
                   ~a.abort =>
                       /\ a.ret = new_table(Len(dfg.extended_values))
                       /\ AttachedBehind(a.dfg, inst, before, last_res, a.ret, ty)

\* C27: change_to_alias(dest, src) aborts and writes nothing when dest is the
\* value src resolves to, when dest and that value have different types, and
\* when dest is a direct value.
C27_ChangeToAliasAborts ==
    \A src \in Values(dfg) :
        LET original == resolve_aliases(dfg, src) IN
        \A dest \in Values(dfg) :
            (\/ original = Abort
             \/ dest = original
             \/ expand(dest).tag = "Direct"
             \/ value_type(dfg, dest) # value_type(dfg, original))
            => change_to_alias(dfg, dest, src) = Panic(dfg)

\* C27 witness: the state offers each of the refused calls: an alias whose
\* chain ends at a different table value dest, a table dest whose type differs
\* from that of a source, and a direct dest of the type of a different source.
C27_Witness ==
    /\ \E dest \in Values(dfg), src \in Values(dfg) :
           /\ dest # src
           /\ expand(dest).tag = "Table"
           /\ resolve_aliases(dfg, src) = dest
           /\ change_to_alias(dfg, dest, src).abort
    /\ \E dest \in Values(dfg), src \in Values(dfg) :
           /\ expand(dest).tag = "Table"
           /\ resolve_aliases(dfg, src) # dest
           /\ value_type(dfg, dest) # value_type(dfg, resolve_aliases(dfg, src))
           /\ change_to_alias(dfg, dest, src).abort
    /\ \E dest \in Values(dfg), src \in Values(dfg) :
           /\ expand(dest).tag = "Direct"
           /\ resolve_aliases(dfg, src) # dest
           /\ value_type(dfg, dest) = value_type(dfg, resolve_aliases(dfg, src))
           /\ change_to_alias(dfg, dest, src).abort

\* C28: value_def gives Res(inst, 0) for the direct value of inst, Res(inst, k)
\* for a secondary result standing at entry k of the results of inst,
\* Arg(ebb, k) for an EBB argument standing at entry k of the arguments of
\* ebb, for an alias the definition of the value it resolves to, and it
\* aborts for a secondary result or EBB argument that stands in no list.
C28_ValueDef ==
    /\ \A i \in Insts(dfg) :
           value_def(dfg, new_direct(i)) = [kind |-> "Res", of |-> i, num |-> 0]
    /\ \A t \in Tables(dfg) :
           LET v == new_table(t) IN
           /\ Slot(dfg, v).kind = "Inst" =>
                  /\ \A i \in Insts(dfg), k \in 1 .. MaxList :
                         list_get(dfg.results[i + 1], k) = v =>
                             value_def(dfg, v) = [kind |-> "Res", of |-> i, num |-> k]
                  /\ ~Attached(dfg, v) => value_def(dfg, v) = Dangling
           /\ Slot(dfg, v).kind = "Arg" =>
                  /\ \A b \in Ebbs(dfg), k \in 0 .. MaxList :
                         list_get(dfg.ebbs[b + 1], k) = v =>
                             value_def(dfg, v) = [kind |-> "Arg", of |-> b, num |-> k]
                  /\ ~Attached(dfg, v) => value_def(dfg, v) = Dangling
           /\ Slot(dfg, v).kind = "Alias" =>
                  value_def(dfg, v) = value_def(dfg, resolve_aliases(dfg, v))

(***************************************************************************)
(* Lists at the capacity limit.  Filled(n, m) is the state after make_ebb, *)
(* n calls of append_ebb_arg(ebb0, I32), make_inst(iconst),                *)
(* make_inst_results(inst0, I32) and m - 1 calls of                        *)
(* append_secondary_result(last result, I32), written in closed form.      *)
(***************************************************************************)
Filled(n, m) ==
    [DataFlowGraph_new EXCEPT
        !.insts = <<InstructionData("iconst", I32, << >>, None)>>,
        !.results = << <<new_direct(0)>> \o [j \in 1 .. m - 1 |-> new_table(n + j - 1)] >>,
        !.ebbs = << [k \in 1 .. n |-> new_table(k - 1)] >>,
        !.extended_values =
            [k \in 1 .. n + m - 1 |->
                IF k <= n
                THEN ValueData_Arg(I32, k - 1, 0)
                ELSE ValueData_Inst(I32, k - n, 0,
                                    IF k < n + m - 1 THEN new_table(k) ELSE None)]]

InitFull ==
    /\ dfg = Filled(U16_MAX - 1, U16_MAX - 1)
    /\ last = [op |-> "new", args |-> << >>, ret |-> None]
    /\ calls = 0

Full_append_ebb_arg ==
    /\ ebb_is_valid(dfg, 0)
    /\ \E ty \in Types :
           Returns("append_ebb_arg", <<0, ty>>, append_ebb_arg(dfg, 0, ty))

Full_append_secondary_result ==
    /\ has_results(dfg, 0)
    /\ \E ty \in Types :
           LET last_res == dfg.results[1][Len(dfg.results[1])] IN
           Returns("append_secondary_result", <<last_res, ty>>,
                   append_secondary_result(dfg, last_res, ty))

NextFull ==
    \/ Full_append_ebb_arg
    \/ Full_append_secondary_result

SpecFull == InitFull /\ [][NextFull]_vars

\* C29: no instruction holds more than 2^16 - 1 results and no EBB more than
\* 2^16 - 1 arguments, the append operations aborting instead; and the num
\* stored in the slot of every listed value is its position in the list.
C29_CapacityCeiling ==
    /\ \A i \in Insts(dfg) :
           /\ Len(dfg.results[i + 1]) <= U16_MAX
           /\ \A k \in 2 .. Len(dfg.results[i + 1]) :
                  Slot(dfg, dfg.results[i + 1][k]).num = k - 1
    /\ \A b \in Ebbs(dfg) :
           /\ Len(dfg.ebbs[b + 1]) <= U16_MAX
           /\ \A k \in 1 .. Len(dfg.ebbs[b + 1]) :
                  Slot(dfg, dfg.ebbs[b + 1][k]).num = k - 1

\* C30: in every state, no value whose slot is an alias
\* stands in a result list or an argument list.
C30_AliasNeverListed ==
    \A k \in Tables(dfg) :
        Slot(dfg, new_table(k)).kind = "Alias" => ~Attached(dfg, new_table(k))

====
